---- MODULE Spec2Model ----
(***************************************************************************)
(* SampleLogger (src/src/lib.rs): a table of named f32 columns that is     *)
(* filled one value at a time by write, stops after a configurable number  *)
(* of 'sample' values and is serialised to a CSV file by                   *)
(* write_debug_values; read_csv_as_audio_data reads such a file back into  *)
(* a map of columns.                                                       *)
(*                                                                         *)
(* An f32 value is represented by the integer number of tenths it stands   *)
(* for (1 is 0.1, 10 is 1.0, -5 is -0.5); to_string renders it the way     *)
(* Rust's Display for f32 does.  A CSV file is the sequence of its         *)
(* records, each record the sequence of its fields (strings).              *)
(***************************************************************************)
EXTENDS Integers, Sequences, FiniteSets, TLC

VARIABLES
    debug_values,          \* HashMap<String, Vec<f32>>: function key -> sequence
    samples_seen,          \* u64
    quit_after_n_samples,  \* Option<u64>: None or Some(n)
    bucket_order,          \* the keys in the order the map's buckets hold them
    file,                  \* output_file on disk: whether it exists, its records
    ret,                   \* the last call and what it returned
    ever_err,              \* some write call has returned Err
    sample_calls,          \* caller: number of write("sample", _) calls made
    first_seen,            \* caller: the keys in the order of their first write
    round_keys,            \* caller: the keys it writes in every sample round
    pending,               \* caller: keys still to be written in the open round
    rounds,                \* caller: number of completed sample rounds
    read_data              \* caller: the map read_csv_as_audio_data returned

vars == <<debug_values, samples_seen, quit_after_n_samples, bucket_order, file,
          ret, ever_err, sample_calls, first_seen, round_keys, pending, rounds,
          read_data>>

\* the fields of SampleLogger
logger == <<debug_values, bucket_order, samples_seen, quit_after_n_samples>>

(* ---------------------------------------------------------------------- *)
(* Bounds of the model and the inputs the calls are drawn from             *)
(* ---------------------------------------------------------------------- *)
MaxCalls == 4        \* values stored by the write calls of a run
MaxFlushCalls == 3   \* the same, in the runs that also write the file
MaxStop == 2         \* largest argument of set_quit_after_n_samples
MaxRounds == 2       \* sample rounds of a caller that writes in rounds

Keys == {"sample", "other", "gain"}
FloatValues == {1, 2, 10}

None == << >>
Some(n) == <<n>>
NoFile == [exists |-> FALSE, records |-> << >>]
FileOf(records) == [exists |-> TRUE, records |-> records]

(* ---------------------------------------------------------------------- *)
(* Helpers                                                                 *)
(* ---------------------------------------------------------------------- *)
RECURSIVE SumSeq(_)
SumSeq(s) == IF s = << >> THEN 0 ELSE Head(s) + SumSeq(Tail(s))

MaxOf(S) == CHOOSE m \in S : \A x \in S : x <= m

\* HashMap::keys / HashMap::values: both walk the buckets in the same order
keys == bucket_order
values == [i \in DOMAIN bucket_order |-> debug_values[bucket_order[i]]]

\* the number of values the table holds
Stored == SumSeq([i \in DOMAIN values |-> Len(values[i])])

\* a sequence with x put in at position i
InsertAt(s, i, x) == SubSeq(s, 1, i - 1) \o <<x>> \o SubSeq(s, i, Len(s))

\* variant: the key's sequence is replaced by the new value alone
entry_push_replace(dv, key, value) ==
    [k \in DOMAIN dv \cup {key} |-> IF k = key THEN <<value>> ELSE dv[k]]

\* entry(key).or_insert(Vec::new()).push(value)
entry_push(dv, key, value) ==
    IF key \in DOMAIN dv
    THEN [dv EXCEPT ![key] = Append(@, value)]
    ELSE [k \in DOMAIN dv \cup {key} |-> IF k = key THEN <<value>> ELSE dv[k]]

(* f32::to_string: the shortest decimal text that reads back as the value; *)
(* a value without fractional part has no decimal point                    *)
Digit == <<"0", "1", "2", "3", "4", "5", "6", "7", "8", "9">>

RECURSIVE nat_to_string(_)
nat_to_string(n) ==
    IF n < 10 THEN Digit[n + 1] ELSE nat_to_string(n \div 10) \o Digit[(n % 10) + 1]

to_string(v) ==
    LET a == IF v < 0 THEN -v ELSE v
        sign == IF v < 0 THEN "-" ELSE ""
    IN  IF a % 10 = 0
        THEN sign \o nat_to_string(a \div 10)
        ELSE sign \o nat_to_string(a \div 10) \o "." \o Digit[(a % 10) + 1]

(* ---------------------------------------------------------------------- *)
(* SampleLogger                                                            *)
(* ---------------------------------------------------------------------- *)
\* variant: the limit compared with <= instead of <
is_logging_active_le ==
    IF quit_after_n_samples = None
    THEN TRUE
    ELSE samples_seen <= quit_after_n_samples[1]

is_logging_active ==
    IF quit_after_n_samples = None
    THEN TRUE
    ELSE samples_seen < quit_after_n_samples[1]

\* variant: the lengths are not compared
is_logged_correctly_unbalanced ==
    LET lengths == [i \in DOMAIN values |-> Len(values[i])]
    IN  IF Len(lengths) = 0 THEN "panic"
        ELSE LET n == SumSeq(lengths) \div Len(lengths)
             IN  IF n > 1 /\ ~ \E i \in DOMAIN keys : keys[i] = "sample"
                 THEN "Err_no_sample"
                 ELSE "Ok"

\* variant: 'sample' is demanded once the first round is complete (n > 0)
is_logged_correctly_first_round ==
    LET lengths == [i \in DOMAIN values |-> Len(values[i])]
    IN  IF Len(lengths) = 0 THEN "panic"
        ELSE LET n == SumSeq(lengths) \div Len(lengths)
             IN  IF ~ \A i \in DOMAIN lengths : lengths[i] = n \/ lengths[i] = n + 1
                 THEN "Err_imbalance"
                 ELSE IF n > 0 /\ ~ \E i \in DOMAIN keys : keys[i] = "sample"
                 THEN "Err_no_sample"
                 ELSE "Ok"

\* variant: the key 'sample' is never demanded
is_logged_correctly_lengths_only ==
    LET lengths == [i \in DOMAIN values |-> Len(values[i])]
    IN  IF Len(lengths) = 0 THEN "panic"
        ELSE LET n == SumSeq(lengths) \div Len(lengths)
             IN  IF ~ \A i \in DOMAIN lengths : lengths[i] = n \/ lengths[i] = n + 1
                 THEN "Err_imbalance"
                 ELSE "Ok"

\* n = sum / len panics (division by zero) on an empty map
is_logged_correctly ==
    LET lengths == [i \in DOMAIN values |-> Len(values[i])]
    IN  IF Len(lengths) = 0 THEN "panic"
        ELSE LET n == SumSeq(lengths) \div Len(lengths)
             IN  IF ~ \A i \in DOMAIN lengths : lengths[i] = n \/ lengths[i] = n + 1
                 THEN "Err_imbalance"
                 ELSE IF n > 1 /\ ~ \E i \in DOMAIN keys : keys[i] = "sample"
                 THEN "Err_no_sample"
                 ELSE "Ok"

\* the records write_debug_values hands to the csv writer
csv_records ==
    LET max_len == IF Len(values) = 0 THEN 0
                   ELSE MaxOf({Len(values[j]) : j \in DOMAIN values})
        record(i) == [j \in DOMAIN values |->
                        IF i <= Len(values[j]) THEN to_string(values[j][i]) ELSE ""]
    IN  <<keys>> \o [i \in 1..max_len |-> record(i)]

\* a panic ends the process
Running == ret.res # "panic"

\* SampleLogger::new, and a caller that has done nothing yet
InitLogger ==
    /\ debug_values = << >>
    /\ samples_seen = 0
    /\ quit_after_n_samples = None
    /\ bucket_order = << >>
    /\ file = NoFile
    /\ ret = [op |-> "new", res |-> "Ok"]
    /\ ever_err = FALSE
    /\ sample_calls = 0
    /\ first_seen = << >>
    /\ rounds = 0
    /\ read_data = << >>

Init ==
    /\ InitLogger
    /\ round_keys = {}
    /\ pending = {}

\* variant: the key's entry is created before the limit is looked at
write_inactive_creates(key, value) ==
    /\ ~ is_logging_active
    /\ ret' = [op |-> "write", res |-> "Ok"]
    /\ debug_values' = [k \in DOMAIN debug_values \cup {key} |->
                          IF k \in DOMAIN debug_values THEN debug_values[k] ELSE << >>]
    /\ bucket_order' = IF key \in DOMAIN debug_values THEN bucket_order
                       ELSE Append(bucket_order, key)
    /\ UNCHANGED <<samples_seen, ever_err>>

write_inactive(key, value) ==
    /\ ~ is_logging_active
    /\ ret' = [op |-> "write", res |-> "Ok"]
    /\ UNCHANGED <<debug_values, bucket_order, samples_seen, ever_err>>

\* variant: every key is counted
counted_any(key) == TRUE

\* if key == "sample"
counted(key) == key = "sample"

\* variant: once a call has returned Err, nothing more is stored
write_active_latched(key, value) ==
    /\ is_logging_active
    /\ IF ever_err
       THEN /\ ret' = [op |-> "write", res |-> "Err_imbalance"]
            /\ UNCHANGED <<debug_values, bucket_order, samples_seen, ever_err>>
       ELSE /\ debug_values' = entry_push(debug_values, key, value)
            /\ IF key \in DOMAIN debug_values
               THEN bucket_order' = bucket_order
               ELSE \E i \in 1..(Len(bucket_order) + 1) :
                       bucket_order' = InsertAt(bucket_order, i, key)
            /\ samples_seen' = IF counted(key) THEN samples_seen + 1 ELSE samples_seen
            /\ ret' = [op |-> "write", res |-> is_logged_correctly']
            /\ ever_err' = (ever_err \/ ret'.res # "Ok")

\* a new key lands in the bucket its hash selects: anywhere among the others
write_active(key, value) ==
    /\ is_logging_active
    /\ debug_values' = entry_push(debug_values, key, value)
    /\ IF key \in DOMAIN debug_values
       THEN bucket_order' = bucket_order
       ELSE \E i \in 1..(Len(bucket_order) + 1) :
               bucket_order' = InsertAt(bucket_order, i, key)
    /\ samples_seen' = IF counted(key) THEN samples_seen + 1 ELSE samples_seen
    /\ ret' = [op |-> "write", res |-> is_logged_correctly']
    /\ ever_err' = (ever_err \/ ret'.res # "Ok")

write(key, value) ==
    /\ Running
    /\ \/ write_inactive(key, value)
       \/ write_active(key, value)
    /\ UNCHANGED <<quit_after_n_samples, file>>

set_quit_after_n_samples(samples) ==
    /\ Running
    /\ quit_after_n_samples' = Some(samples)
    /\ ret' = [op |-> "set_quit_after_n_samples", res |-> "Ok"]
    /\ UNCHANGED <<debug_values, bucket_order, samples_seen, file, ever_err>>

\* what write_debug_values returns: the check's error, File::create's error
\* (create_ok = FALSE), or Ok
flush_result(create_ok) ==
    IF is_logged_correctly # "Ok" THEN is_logged_correctly
    ELSE IF ~ create_ok THEN "Err_io"
    ELSE "Ok"

\* variant: File::create is called before the table is checked
flush_file_create_first(create_ok) ==
    IF ~ create_ok THEN file
    ELSE IF is_logged_correctly = "Ok" THEN FileOf(csv_records)
    ELSE FileOf(<< >>)

\* what output_file holds after write_debug_values
flush_file(create_ok) ==
    IF flush_result(create_ok) = "Ok" THEN FileOf(csv_records) ELSE file

\* variant: the table is cleared once it has been written
write_debug_values_drain(create_ok) ==
    /\ Running
    /\ ret' = [op |-> "write_debug_values", res |-> flush_result(create_ok)]
    /\ file' = flush_file(create_ok)
    /\ IF flush_result(create_ok) = "Ok"
       THEN debug_values' = << >> /\ bucket_order' = << >> /\ samples_seen' = 0
       ELSE UNCHANGED <<debug_values, bucket_order, samples_seen>>
    /\ UNCHANGED <<quit_after_n_samples, ever_err>>

write_debug_values(create_ok) ==
    /\ Running
    /\ ret' = [op |-> "write_debug_values", res |-> flush_result(create_ok)]
    /\ file' = flush_file(create_ok)
    /\ UNCHANGED <<debug_values, bucket_order, samples_seen, quit_after_n_samples,
                   ever_err>>

(* ---------------------------------------------------------------------- *)
(* Spec: the logger under arbitrary write and set_quit_after_n_samples     *)
(* calls                                                                   *)
(* ---------------------------------------------------------------------- *)
caller == <<sample_calls, first_seen, round_keys, pending, rounds, read_data>>

\* a write call to key, while the table holds fewer than max values
WriteKey(key, max) ==
    \E value \in FloatValues :
        /\ is_logging_active => Stored < max
        /\ write(key, value)

Write == \E key \in Keys : WriteKey(key, MaxCalls)
SetQuit == \E samples \in 0..MaxStop : set_quit_after_n_samples(samples)
Flush == \E create_ok \in BOOLEAN : write_debug_values(create_ok)

Next ==
    \/ Write /\ UNCHANGED caller
    \/ SetQuit /\ UNCHANGED caller

Spec == Init /\ [][Next]_vars

(* ---------------------------------------------------------------------- *)
(* SpecStop: set_quit_after_n_samples on the fresh logger, then write      *)
(* calls only; the caller counts its write("sample", _) calls              *)
(* ---------------------------------------------------------------------- *)
WriteCounted ==
    \E key \in Keys :
        /\ key = "sample" => sample_calls < MaxCalls
        /\ WriteKey(key, MaxCalls)
        /\ sample_calls' = IF key = "sample" THEN sample_calls + 1 ELSE sample_calls
        /\ UNCHANGED <<first_seen, round_keys, pending, rounds, read_data>>

NextStop ==
    \/ ret.op = "new" /\ SetQuit /\ UNCHANGED caller
    \/ ret.op # "new" /\ WriteCounted

SpecStop == Init /\ [][NextStop]_vars

(* ---------------------------------------------------------------------- *)
(* SpecFlush: the logger under write, set_quit_after_n_samples and         *)
(* write_debug_values calls                                                *)
(* ---------------------------------------------------------------------- *)
WriteF == \E key \in Keys : WriteKey(key, MaxFlushCalls)

NextFlush ==
    \/ WriteF /\ UNCHANGED caller
    \/ SetQuit /\ UNCHANGED caller
    \/ Flush /\ UNCHANGED caller

SpecFlush == Init /\ [][NextFlush]_vars

(* ---------------------------------------------------------------------- *)
(* SpecOrder: the logger under write and write_debug_values calls; the     *)
(* caller notes the order in which it first wrote each key                 *)
(* ---------------------------------------------------------------------- *)
WriteSeen ==
    \E key \in Keys :
        /\ WriteKey(key, MaxFlushCalls)
        /\ first_seen' = IF \E i \in DOMAIN first_seen : first_seen[i] = key
                         THEN first_seen
                         ELSE Append(first_seen, key)
        /\ UNCHANGED <<sample_calls, round_keys, pending, rounds, read_data>>

NextOrder ==
    \/ WriteSeen
    \/ Flush /\ UNCHANGED caller

SpecOrder == Init /\ [][NextOrder]_vars

(* ---------------------------------------------------------------------- *)
(* SpecRounds: a caller that writes in sample rounds: in every round one   *)
(* value to each key of a fixed set that holds 'sample', in any order, and *)
(* no limit is set                                                         *)
(* ---------------------------------------------------------------------- *)
InitRounds ==
    /\ InitLogger
    /\ round_keys \in {S \in SUBSET Keys : "sample" \in S}
    /\ pending = round_keys

RoundWrite ==
    \E key \in pending, value \in FloatValues :
        /\ rounds < MaxRounds
        /\ write(key, value)
        /\ pending' = IF pending = {key} THEN round_keys ELSE pending \ {key}
        /\ rounds' = IF pending = {key} THEN rounds + 1 ELSE rounds
        /\ UNCHANGED <<sample_calls, first_seen, round_keys, read_data>>

NextRounds == RoundWrite

SpecRounds == InitRounds /\ [][NextRounds]_vars

(* ---------------------------------------------------------------------- *)
(* Properties of the recording calls                                       *)
(* ---------------------------------------------------------------------- *)
LenOf(k) == IF k \in DOMAIN debug_values THEN Len(debug_values[k]) ELSE 0

\* the longest and the shortest sequence differ by at most one
AlmostSquare ==
    \A j, k \in DOMAIN debug_values : LenOf(j) - LenOf(k) <= 1

\* counter >= threshold, threshold set
Inactive ==
    quit_after_n_samples # None /\ samples_seen >= quit_after_n_samples[1]

ImbalanceErrors == {"Err_imbalance", "Err_no_sample"}

\* the table invariants as stated: almost square, and 'sample' is a key if
\* SOME sequence has length >= 2
TableViolatedSome ==
    \/ ~ AlmostSquare
    \/ /\ \E k \in DOMAIN debug_values : LenOf(k) >= 2
       /\ "sample" \notin DOMAIN debug_values

\* the same with 'sample' demanded only if EVERY sequence has length >= 2
\* (the shortest sequence of a table that is not empty has)
TableViolatedAll ==
    \/ ~ AlmostSquare
    \/ /\ DOMAIN debug_values # {}
       /\ \A k \in DOMAIN debug_values : LenOf(k) >= 2
       /\ "sample" \notin DOMAIN debug_values

\* C1: as long as every write call has returned Ok, all sequences have
\* length n or n+1 for one common n.
C1_AlmostSquare == ~ ever_err => AlmostSquare

\* a skewed table (lengths 2 and 1) after a write, no call having failed
C1_Witness ==
    /\ ~ ever_err
    /\ ret.op = "write"
    /\ \E j, k \in DOMAIN debug_values : LenOf(j) = 2 /\ LenOf(k) = 1

C3_InactiveWriteNoOp ==
    [][(Inactive /\ ret'.op = "write") =>
         /\ ret'.res = "Ok"
         /\ UNCHANGED <<debug_values, bucket_order, samples_seen,
                        quit_after_n_samples>>]_vars

\* a write call has been made with the threshold at 0: no key was created
C3_Witness ==
    /\ ret.op = "write"
    /\ quit_after_n_samples = Some(0)
    /\ DOMAIN debug_values = {}

\* C4: with the threshold N set on the fresh logger and not changed since,
\* 'sample' never holds more than N values, holds exactly N once N
\* write("sample", _) calls have been made, and logging is active exactly
\* while the counter is below N.
C4_StopsAtN ==
    quit_after_n_samples # None =>
        LET N == quit_after_n_samples[1]
        IN  /\ LenOf("sample") <= N
            /\ sample_calls >= N => LenOf("sample") = N
            /\ is_logging_active <=> samples_seen < N

\* more write("sample", _) calls than the threshold 2: 'sample' holds 2
C4_Witness ==
    /\ quit_after_n_samples = Some(2)
    /\ sample_calls > 2
    /\ LenOf("sample") = 2
    /\ ~ is_logging_active

\* C5: when the write calls come in sample rounds, every call returns Ok,
\* and after each completed round every key of the round holds one value
\* per round: all sequences have the same length.
C5_RoundsEqualLength ==
    /\ ~ ever_err
    /\ ret.res = "Ok"
    /\ pending = round_keys =>
          /\ \A k \in round_keys : LenOf(k) = rounds
          /\ \A j, k \in DOMAIN debug_values : LenOf(j) = LenOf(k)

\* two complete rounds over three keys
C5_Witness ==
    /\ round_keys = Keys
    /\ pending = round_keys
    /\ rounds = 2
    /\ \A k \in Keys : LenOf(k) = 2

\* C6: the counter equals the length of the 'sample' sequence in every
\* state (0 without that key), also after a write call returned an error,
\* and no step decreases it.
C6_CounterIsSampleLen ==
    /\ [](samples_seen = LenOf("sample"))
    /\ [][samples_seen' >= samples_seen]_vars

\* a write call has returned an error on a table holding 'sample' values
C6_Witness ==
    /\ ret.op = "write"
    /\ ret.res \in ImbalanceErrors
    /\ samples_seen >= 1

(* ---------------------------------------------------------------------- *)
(* Properties of write_debug_values                                        *)
(* ---------------------------------------------------------------------- *)
FlushedOk == ret = [op |-> "write_debug_values", res |-> "Ok"]

MaxLen == IF DOMAIN debug_values = {} THEN 0
          ELSE MaxOf({LenOf(k) : k \in DOMAIN debug_values})

\* the field of key k in data row i
Cell(k, i) == IF i <= LenOf(k) THEN to_string(debug_values[k][i]) ELSE ""

\* the file holds a header naming every key once and MaxLen data rows; row i
\* holds under each key its i-th value, or a blank; blanks in the last row only
FileShowsTable ==
    LET rows == file.records
    IN  /\ file.exists
        /\ Len(rows) = 1 + MaxLen
        /\ Len(rows[1]) = Cardinality(DOMAIN debug_values)
        /\ {rows[1][j] : j \in DOMAIN rows[1]} = DOMAIN debug_values
        /\ \A i \in 1..MaxLen :
              /\ Len(rows[i + 1]) = Len(rows[1])
              /\ \A j \in DOMAIN rows[1] : rows[i + 1][j] = Cell(rows[1][j], i)
              /\ i < MaxLen => \A j \in DOMAIN rows[1] : rows[i + 1][j] # ""

\* C7 as stated: a successful write_debug_values leaves the file holding the
\* header and MaxLen data rows, blanks in the last row only; after
\* write("sample", 0.1), write("other", 1.0), write("sample", 0.2) the file
\* is sample,other / 0.1,1.0 / 0.2,(blank).
C7_FlushWritesTable ==
    FlushedOk =>
        /\ FileShowsTable
        /\ (/\ debug_values = [sample |-> <<1, 2>>, other |-> <<10>>]
            /\ first_seen = <<"sample", "other">>) =>
               file.records =
                   << <<"sample", "other">>, <<"0.1", "1.0">>, <<"0.2", "">> >>

\* C8 as stated: the header written by write_debug_values lists the keys in
\* the order in which they were first written.
C8_HeaderFirstSeen == FlushedOk => file.records[1] = first_seen

\* C9: write_debug_values leaves the table, the counter and the threshold
\* as they were, whatever it returns, and after a successful call the file
\* shows the table as it is then.
C9_FlushKeepsLogger ==
    /\ [][ret'.op = "write_debug_values" =>
            UNCHANGED <<debug_values, bucket_order, samples_seen,
                        quit_after_n_samples>>]_vars
    /\ [](FlushedOk => FileShowsTable)

\* a second successful write_debug_values, after more was written: the
\* table holds a limit and two values or more
C9_Witness ==
    /\ FlushedOk
    /\ quit_after_n_samples # None
    /\ samples_seen >= 1
    /\ Stored >= 2

MaxRows == 2         \* data rows of a file that was not written by the logger

HeaderNames == {"a", "b", "c"}
FieldList == <<"1", "2", "3", "4", "5", "6", "-0.5", "1.0", "", "x">>

IsDigits(s) == \A i \in 1..Len(s) : \E d \in DOMAIN Digit : Digit[d] = SubSeq(s, i, i)
DigitValue(c) == (CHOOSE d \in DOMAIN Digit : Digit[d] = c) - 1

RECURSIVE NatOf(_)
NatOf(s) ==
    IF Len(s) = 0 THEN 0
    ELSE NatOf(SubSeq(s, 1, Len(s) - 1)) * 10 + DigitValue(SubSeq(s, Len(s), Len(s)))

\* variant: the text is read up to the decimal point
parse_whole(s) ==
    LET dots == {i \in 1..Len(s) : SubSeq(s, i, i) = "."}
        int == IF dots = {} THEN s ELSE SubSeq(s, 1, (CHOOSE i \in dots : TRUE) - 1)
    IN  IF IsDigits(int) /\ Len(int) > 0 THEN Some(NatOf(int) * 10) ELSE None

(* str::parse::<f32> on decimal text: an optional sign, digits, an optional *)
(* point and digits, with a digit on at least one side of the point; Some   *)
(* of the value, to the tenth, or None for the error.  Exponents and the    *)
(* texts of infinity and NaN are not among the fields of the model.         *)
parse(s) ==
    LET signed == Len(s) > 0 /\ SubSeq(s, 1, 1) \in {"+", "-"}
        body == IF signed THEN SubSeq(s, 2, Len(s)) ELSE s
        dots == {i \in 1..Len(body) : SubSeq(body, i, i) = "."}
        dot == IF dots = {} THEN Len(body) + 1 ELSE CHOOSE i \in dots : TRUE
        int == SubSeq(body, 1, dot - 1)
        frac == SubSeq(body, dot + 1, Len(body))
        tenths == NatOf(int) * 10
                    + (IF Len(frac) = 0 THEN 0 ELSE DigitValue(SubSeq(frac, 1, 1)))
    IN  IF IsDigits(int) /\ IsDigits(frac) /\ Len(int) + Len(frac) > 0
        THEN Some(IF signed /\ SubSeq(s, 1, 1) = "-" THEN - tenths ELSE tenths)
        ELSE None

\* for (i, header) in headers.iter().enumerate(): entry(header).push(row[i])
RECURSIVE push_row(_, _, _, _)
push_row(data, headers, row, i) ==
    IF i > Len(headers) THEN data
    ELSE push_row(entry_push(data, headers[i], row[i]), headers, row, i + 1)

(* for record in reader.records(): record? is the csv reader's error for a  *)
(* record whose number of fields differs from the header's; expect panics   *)
(* on a field that does not parse                                           *)
RECURSIVE read_records(_, _, _)
read_records(headers, rows, data) ==
    IF rows = << >> THEN [res |-> "Ok", data |-> data]
    ELSE LET record == Head(rows)
         IN  IF Len(record) # Len(headers)
             THEN [res |-> "Err_csv", data |-> << >>]
             ELSE IF \E i \in DOMAIN record : parse(record[i]) = None
             THEN [res |-> "panic", data |-> << >>]
             ELSE read_records(headers, Tail(rows),
                               push_row(data, headers,
                                        [i \in DOMAIN record |-> parse(record[i])[1]], 1))

(* File::open(path)? fails on a missing file; reader.headers() is the first *)
(* record, or the empty record when the file holds none                     *)
read_csv_as_audio_data(f) ==
    IF ~ f.exists THEN [res |-> "Err_io", data |-> << >>]
    ELSE IF Len(f.records) = 0 THEN [res |-> "Ok", data |-> << >>]
    ELSE read_records(Head(f.records), Tail(f.records), << >>)

\* read_csv_as_audio_data(output_file)
Read ==
    /\ Running
    /\ ret' = [op |-> "read_csv_as_audio_data",
               res |-> read_csv_as_audio_data(file).res]
    /\ read_data' = read_csv_as_audio_data(file).data
    /\ UNCHANGED <<debug_values, bucket_order, samples_seen, quit_after_n_samples,
                   file, ever_err>>

reader == <<sample_calls, first_seen, round_keys, pending, rounds>>

(* ---------------------------------------------------------------------- *)
(* SpecRead: read_csv_as_audio_data on a file that some other program      *)
(* wrote, on an empty file and on a missing one                            *)
(* ---------------------------------------------------------------------- *)
Headers ==
    UNION {{h \in [1..n -> HeaderNames] : \A i, j \in 1..n : h[i] = h[j] => i = j} :
           n \in 1..Cardinality(HeaderNames)}

\* a record is a run of neighbours of FieldList
Records ==
    {SubSeq(FieldList, i, j) : i \in 1..Len(FieldList),
                               j \in 1..Len(FieldList)}
        \cap UNION {[1..n -> {FieldList[i] : i \in DOMAIN FieldList}] :
                    n \in 1..Cardinality(HeaderNames)}

SourceFiles ==
    {NoFile, FileOf(<< >>)}
        \cup {FileOf(<<h>> \o rows) :
                h \in Headers, rows \in UNION {[1..m -> Records] : m \in 0..MaxRows}}

InitRead ==
    /\ debug_values = << >>
    /\ samples_seen = 0
    /\ quit_after_n_samples = None
    /\ bucket_order = << >>
    /\ file \in SourceFiles
    /\ ret = [op |-> "new", res |-> "Ok"]
    /\ ever_err = FALSE
    /\ sample_calls = 0
    /\ first_seen = << >>
    /\ round_keys = {}
    /\ pending = {}
    /\ rounds = 0
    /\ read_data = << >>

NextRead == Read /\ UNCHANGED reader

SpecRead == InitRead /\ [][NextRead]_vars

(* ---------------------------------------------------------------------- *)
(* SpecCodec: the logger under write and write_debug_values calls, and     *)
(* read_csv_as_audio_data on the file the logger writes                    *)
(* ---------------------------------------------------------------------- *)
NextCodec ==
    \/ WriteF /\ UNCHANGED caller
    \/ Flush /\ UNCHANGED caller
    \/ Read /\ UNCHANGED reader

SpecCodec == Init /\ [][NextCodec]_vars

(* ---------------------------------------------------------------------- *)
(* Properties of read_csv_as_audio_data                                    *)
(* ---------------------------------------------------------------------- *)
ReadDone == ret.op = "read_csv_as_audio_data"

\* no blank cell: all sequences of the table have the same length
NoBlank == \A j, k \in DOMAIN debug_values : LenOf(j) = LenOf(k)

\* C11: when the file is the one write_debug_values wrote for the present
\* table and the table has no blank cell, read_csv_as_audio_data returns Ok
\* with a map of the same keys and, under each key, the same values in the
\* same order.
C11_RoundTrip ==
    (ReadDone /\ FileShowsTable /\ NoBlank) =>
        /\ ret.res = "Ok"
        /\ DOMAIN read_data = DOMAIN debug_values
        /\ \A k \in DOMAIN debug_values : read_data[k] = debug_values[k]

C11_Witness ==
    /\ ReadDone
    /\ FileShowsTable
    /\ NoBlank
    /\ Cardinality(DOMAIN debug_values) >= 2
    /\ \E k \in DOMAIN debug_values : debug_values[k] = <<1>>
    /\ read_data = debug_values

\* the value a numeric field of the files of the model stands for
FieldValue ==
    [t \in {"1", "2", "3", "4", "5", "6", "-0.5", "1.0", "0.1", "0.2"} |->
        CASE t = "1" -> 10 [] t = "2" -> 20 [] t = "3" -> 30 [] t = "4" -> 40
          [] t = "5" -> 50 [] t = "6" -> 60 [] t = "-0.5" -> -5 [] t = "1.0" -> 10
          [] t = "0.1" -> 1 [] t = "0.2" -> 2]

\* the file has a header of distinct names and data rows of as many numeric
\* fields each
WellFormed ==
    LET rows == file.records
    IN  /\ file.exists
        /\ Len(rows) >= 1
        /\ \A i, j \in DOMAIN rows[1] : rows[1][i] = rows[1][j] => i = j
        /\ \A i \in 2..Len(rows) :
              /\ Len(rows[i]) = Len(rows[1])
              /\ \A j \in DOMAIN rows[i] : rows[i][j] \in DOMAIN FieldValue

\* the map holds under the j-th header name the j-th fields of the data rows
ColumnsByPosition ==
    LET rows == file.records
    IN  /\ DOMAIN read_data = {rows[1][j] : j \in DOMAIN rows[1]}
        /\ \A j \in DOMAIN rows[1] :
              read_data[rows[1][j]] =
                  [i \in 1..(Len(rows) - 1) |-> FieldValue[rows[i + 1][j]]]

\* C12 as stated: for a file with k distinct header names and m data rows of
\* k numeric fields each, read_csv_as_audio_data returns a map that holds
\* under the j-th header name the j-th fields of rows 1..m in row order.
C12_ColumnsByPosition ==
    (ReadDone /\ WellFormed) => (ret.res = "Ok" /\ ColumnsByPosition)

\* the same for the files that have at least one data row
ColumnsByPositionFromOneRow ==
    (ReadDone /\ WellFormed /\ Len(file.records) >= 2) =>
        (ret.res = "Ok" /\ ColumnsByPosition)

\* the file of the example is read as a:[1,4], b:[2,5], c:[3,6]
ExampleRead ==
    /\ ReadDone
    /\ file.records = << <<"a", "b", "c">>, <<"1", "2", "3">>, <<"4", "5", "6">> >>
    /\ read_data = [a |-> <<10, 40>>, b |-> <<20, 50>>, c |-> <<30, 60>>]

\* every data row has as many fields as the header, and some field of a data
\* row is not the text of a floating value
BadField ==
    /\ file.exists
    /\ \A i \in 2..Len(file.records) : Len(file.records[i]) = Len(file.records[1])
    /\ \E i \in 2..Len(file.records) :
          \E j \in DOMAIN file.records[i] : file.records[i][j] \notin DOMAIN FieldValue

\* C13 as stated: when a field of a data row is not the text of a floating
\* value, blank fields of a last row written by write_debug_values included,
\* read_csv_as_audio_data returns an error to its caller and no map; it does
\* not panic.
C13_ParseErrorReturned ==
    (ReadDone /\ BadField) => (ret.res \notin {"Ok", "panic"} /\ read_data = << >>)

\* C14 as stated: read_csv_as_audio_data on a file without header (an empty
\* file) returns an error, never Ok with an empty map.
C14_NoHeaderRejected ==
    (ReadDone /\ file.exists /\ Len(file.records) = 0) => ret.res # "Ok"

(* ---------------------------------------------------------------------- *)
(* SpecDisabled: the build with feature "disabled": cfg!(feature =         *)
(* "disabled") is true, so write and write_debug_values take their else    *)
(* branch; set_quit_after_n_samples has no such test.  output_file may     *)
(* hold anything before the logger is built.                               *)
(* ---------------------------------------------------------------------- *)
\* variant: write without the test of the feature
write_disabled_untested(key, value) == write(key, value)

write_disabled(key, value) ==
    /\ Running
    /\ ret' = [op |-> "write", res |-> "Ok"]
    /\ UNCHANGED <<debug_values, bucket_order, samples_seen, quit_after_n_samples,
                   file, ever_err>>

write_debug_values_disabled ==
    /\ Running
    /\ ret' = [op |-> "write_debug_values", res |-> "Ok"]
    /\ UNCHANGED <<debug_values, bucket_order, samples_seen, quit_after_n_samples,
                   file, ever_err>>

\* the files of SourceFiles with at most one data row
PriorFiles == {f \in SourceFiles : Len(f.records) <= 2}

InitDisabled ==
    /\ debug_values = << >>
    /\ samples_seen = 0
    /\ quit_after_n_samples = None
    /\ bucket_order = << >>
    /\ file \in PriorFiles
    /\ ret = [op |-> "new", res |-> "Ok"]
    /\ ever_err = FALSE
    /\ sample_calls = 0
    /\ first_seen = << >>
    /\ round_keys = {}
    /\ pending = {}
    /\ rounds = 0
    /\ read_data = << >>

WriteDisabled == \E key \in Keys, value \in FloatValues : write_disabled(key, value)

NextDisabled ==
    \/ WriteDisabled /\ UNCHANGED caller
    \/ SetQuit /\ UNCHANGED caller
    \/ write_debug_values_disabled /\ UNCHANGED caller

SpecDisabled == InitDisabled /\ [][NextDisabled]_vars

\* C15: in the disabled build every write call returns Ok and leaves table
\* and counter unchanged, every write_debug_values call returns Ok whatever
\* the table holds and leaves the file as it was, and the table stays empty.
C15_DisabledNoOps ==
    [][/\ ret'.op = "write" =>
            /\ ret'.res = "Ok"
            /\ UNCHANGED <<debug_values, bucket_order, samples_seen>>
       /\ ret'.op = "write_debug_values" => (ret'.res = "Ok" /\ file' = file)
       /\ debug_values' = << >>
       /\ samples_seen' = 0]_vars

\* write_debug_values has returned Ok on the empty table, with a limit set
\* and no file created
C15_Witness ==
    /\ ret = [op |-> "write_debug_values", res |-> "Ok"]
    /\ debug_values = << >>
    /\ quit_after_n_samples = Some(2)
    /\ file = NoFile

(* ---------------------------------------------------------------------- *)
(* Effect and result of write, once more                                   *)
(* ---------------------------------------------------------------------- *)
\* the table after the step is the table before it with value at the end of
\* key's sequence
Appended(key, value) ==
    /\ DOMAIN debug_values' = DOMAIN debug_values \cup {key}
    /\ debug_values'[key] =
          (IF key \in DOMAIN debug_values THEN debug_values[key] ELSE << >>)
              \o <<value>>
    /\ \A k \in DOMAIN debug_values \ {key} : debug_values'[k] = debug_values[k]

\* C16: a write call made while logging is active appends its value to the
\* end of its key's sequence, adds one to the counter exactly when the key is
\* 'sample', and leaves every other sequence, the keys there were and the
\* threshold unchanged, whether it returns Ok or Err.
C16_ActiveWriteAppends ==
    [][(~ Inactive /\ ret'.op = "write") =>
         /\ quit_after_n_samples' = quit_after_n_samples
         /\ \E key \in Keys, value \in FloatValues :
               /\ Appended(key, value)
               /\ samples_seen' = samples_seen + (IF key = "sample" THEN 1 ELSE 0)]_vars

\* a write call has returned Err and the table holds the value that broke
\* the balance
C16_Witness ==
    /\ ret = [op |-> "write", res |-> "Err_imbalance"]
    /\ ~ AlmostSquare
    /\ Stored = MaxCalls

\* C17 as stated: write_debug_values returns to its caller in every state
\* of the logger, the empty table included, where it returns Ok and writes
\* a file without data rows.
C17_FlushReturns ==
    ret.op = "write_debug_values" =>
        /\ ret.res # "panic"
        /\ (DOMAIN debug_values = {} /\ ret.res # "Err_io") =>
              (ret.res = "Ok" /\ file.exists /\ Len(file.records) <= 1)

\* C18 as stated: once a write call has returned Err, every later write call
\* made while logging is active and every later write_debug_values call
\* returns Err.
C18_ErrorForEver ==
    [][(ever_err /\ (\/ ~ Inactive /\ ret'.op = "write"
                     \/ ret'.op = "write_debug_values")) =>
         ret'.res # "Ok"]_vars

\* C18 as amended: after a write call has returned Err, a write call made
\* while logging is active, and a write_debug_values call, returns one of
\* the two errors of is_logged_correctly exactly when the table is in violation
\* after the call; it returns Ok again once the table is not.
C18_ErrorWhileViolated ==
    [][(ever_err /\ (\/ ~ Inactive /\ ret'.op = "write"
                     \/ ret'.op = "write_debug_values")) =>
         /\ ret'.res \in ImbalanceErrors \cup {"Ok", "Err_io"}
         /\ (ret'.res \in ImbalanceErrors) <=> TableViolatedAll'
         /\ ret'.op = "write" => ret'.res # "Err_io"]_vars

\* after a write call that returned Err, write_debug_values has returned Ok
C18_Witness ==
    /\ ever_err
    /\ ret = [op |-> "write_debug_values", res |-> "Ok"]
    /\ "sample" \notin DOMAIN debug_values

\* C19: while the table has no key 'sample', the write call after which
\* every sequence has length 2 returns Err, and a write call after which
\* every sequence has length at most 1 returns Ok, whatever the keys are.
C19_NoSampleSecondRound ==
    [][(ret'.op = "write" /\ debug_values' # debug_values
            /\ "sample" \notin DOMAIN debug_values') =>
         /\ (\A k \in DOMAIN debug_values' : Len(debug_values'[k]) = 2)
               => ret'.res \in ImbalanceErrors
         /\ (\A k \in DOMAIN debug_values' : Len(debug_values'[k]) <= 1)
               => ret'.res = "Ok"]_vars

\* two keys, neither of them 'sample', hold two values each and the write
\* call that stored the last of them has returned Err
C19_Witness ==
    /\ ret = [op |-> "write", res |-> "Err_no_sample"]
    /\ DOMAIN debug_values = {"other", "gain"}
    /\ \A k \in DOMAIN debug_values : LenOf(k) = 2

(* ---------------------------------------------------------------------- *)
(* SpecRoundsStop: set_quit_after_n_samples on the fresh logger, then a    *)
(* caller that writes in sample rounds, the keys in the order of the first *)
(* round in every round                                                    *)
(* ---------------------------------------------------------------------- *)
OrderedRoundWrite ==
    \E key \in pending, value \in FloatValues :
        /\ rounds <= MaxStop
        /\ rounds > 0 =>
              key = first_seen[Cardinality(round_keys) - Cardinality(pending) + 1]
        /\ write(key, value)
        /\ first_seen' = IF rounds = 0 THEN Append(first_seen, key) ELSE first_seen
        /\ pending' = IF pending = {key} THEN round_keys ELSE pending \ {key}
        /\ rounds' = IF pending = {key} THEN rounds + 1 ELSE rounds
        /\ UNCHANGED <<sample_calls, round_keys, read_data>>

NextRoundsStop ==
    \/ ret.op = "new" /\ SetQuit /\ UNCHANGED caller
    \/ ret.op # "new" /\ OrderedRoundWrite

SpecRoundsStop == InitRounds /\ [][NextRoundsStop]_vars

\* C20 as stated: with the threshold N set on the fresh logger, once the
\* caller has written more than N complete rounds logging is inactive and
\* every key of the rounds holds exactly N values: the table has no blank
\* cell.
C20_EqualColumnsAtStop ==
    (quit_after_n_samples # None /\ rounds > quit_after_n_samples[1]) =>
        /\ Inactive
        /\ \A k \in round_keys : LenOf(k) = quit_after_n_samples[1]

====
